---- MODULE Spec2Model ----
(***************************************************************************)
(* Model of lux_ai/nns/models.py: DictActor, ValueActivation and           *)
(* BasicActorCriticNetwork.                                                *)
(*                                                                         *)
(* A tensor is a record [shape, data]: data is the contiguous row-major    *)
(* buffer, shape the sequence of dimension sizes.  Indices are 0-based as  *)
(* in the source; data[f + 1] is the element at flat offset f.             *)
(* The learned layers (Conv2d, Linear) have arbitrary weights: their       *)
(* outputs are arbitrary tensors of the shape the layer is built with.     *)
(* Softmax values are exact fractions <<num, den>> over a scaled table of  *)
(* the exponential; floating-point rounding is not modelled.               *)
(***************************************************************************)
EXTENDS Integers, Sequences, FiniteSets, TLC

VARIABLES module, error, action_space, n_actions, action_plane_shapes,
          actors, dim, sample, conv_out, policy_logits, probs, actions,
          baseline, va_x, va_out, returned, x_shape

vars == <<module, error, action_space, n_actions, action_plane_shapes,
          actors, dim, sample, conv_out, policy_logits, probs, actions,
          baseline, va_x, va_out, returned, x_shape>>

\* ---------------------------------------------------------------- bounds
MaxDim == 2
MaxAct == 2
MaxNvec == 2
MaxLogits == 4
MaxVaCols == 3

\* ------------------------------------------------------ program constants
DefaultValueDim == -1

Keys == {"worker", "city_tile"}
LogitVals == {-1, 1}
Empty == <<>>

\* ------------------------------------------------------------ tensor basics
RECURSIVE Prod(_)
Prod(s) == IF s = <<>> THEN 1 ELSE Head(s) * Prod(Tail(s))

RECURSIVE SumSeq(_)
SumSeq(s) == IF s = <<>> THEN 0 ELSE Head(s) + SumSeq(Tail(s))

RECURSIVE MinSeq(_)
MinSeq(s) ==
    IF Len(s) = 1 THEN Head(s)
    ELSE LET m == MinSeq(Tail(s)) IN IF Head(s) < m THEN Head(s) ELSE m

RECURSIVE MaxSeq(_)
MaxSeq(s) ==
    IF Len(s) = 1 THEN Head(s)
    ELSE LET m == MaxSeq(Tail(s)) IN IF Head(s) > m THEN Head(s) ELSE m

\* product of shape[k..Len(shape)]
SuffixProd(shape, k) == Prod(SubSeq(shape, k, Len(shape)))

\* row-major offset of a 0-based multi-index
RECURSIVE Ravel(_, _)
Ravel(idx, shape) ==
    IF idx = <<>> THEN 0
    ELSE Head(idx) * Prod(Tail(shape)) + Ravel(Tail(idx), Tail(shape))

\* 0-based multi-index of a row-major offset
Unravel(f, shape) ==
    [k \in 1..Len(shape) |-> (f \div SuffixProd(shape, k + 1)) % shape[k]]

At(t, idx) == t.data[Ravel(idx, t.shape) + 1]

\* torch.Tensor.view on a contiguous tensor: same buffer, new shape
View(t, shape) == [shape |-> shape, data |-> t.data]

\* torch.Tensor.view(-1, n)
ViewRows(t, n) == View(t, <<Len(t.data) \div n, n>>)

\* torch.Tensor.permute(perm).contiguous(): perm is 0-based
PermuteContiguous(t, perm) ==
    LET newshape == [k \in 1..Len(perm) |-> t.shape[perm[k] + 1]]
        OldIdx(nidx) ==
            [m \in 1..Len(perm) |->
                nidx[CHOOSE k \in 1..Len(perm) : perm[k] + 1 = m]]
    IN [shape |-> newshape,
        data  |-> [f \in 1..Prod(newshape) |->
                      At(t, OldIdx(Unravel(f - 1, newshape)))]]

\* ------------------------------------------------------------ exponential
\* round(1000 * e^v) for the logit values in use
Exp(v) == IF v = -1 THEN 368 ELSE IF v = 0 THEN 1000 ELSE 2718

\* F.softmax(t, d): each element becomes <<num, den>>, den the sum of the
\* exponentials over the elements that differ from it only along dim d
NormDim(t, d) == IF d < 0 THEN d + Len(t.shape) ELSE d

SoftmaxAlong(t, ax) ==
    LET Den(idx) ==
            SumSeq([j \in 1..t.shape[ax] |->
                      Exp(At(t, [idx EXCEPT ![ax] = j - 1]))])
    IN [shape |-> t.shape,
        data  |-> [f \in 1..Len(t.data) |->
                      <<Exp(t.data[f]), Den(Unravel(f - 1, t.shape))>>]]

\* softmax taken along the first dimension whatever dim says
SoftmaxFirstDim(t, d) == SoftmaxAlong(t, 1)

Softmax(t, d) == SoftmaxAlong(t, NormDim(t, d) + 1)

\* ------------------------------------------------------------ gym spaces
MultiDiscrete(shape, nvec) ==
    [kind |-> "MultiDiscrete", shape |-> shape, nvec |-> nvec]

Discrete(n) == [kind |-> "Discrete", shape |-> <<>>, nvec |-> <<n>>]

RECURSIVE ShapesOfLen(_)
ShapesOfLen(n) ==
    IF n = 0 THEN {<<>>}
    ELSE {<<d>> \o s : d \in 1..MaxDim, s \in ShapesOfLen(n - 1)}

Shapes == {s \in ShapesOfLen(3) \cup ShapesOfLen(4) \cup ShapesOfLen(5) :
              Prod(s) <= MaxNvec}

\* nvec filled with n, or with its last element raised to n + 1
UniformNvec(shape, n) == [i \in 1..Prod(shape) |-> n]
BumpedNvec(shape, n) ==
    [i \in 1..Prod(shape) |-> IF i = Prod(shape) THEN n + 1 ELSE n]

Spaces ==
    {Discrete(n) : n \in 1..MaxAct}
    \cup {MultiDiscrete(s, UniformNvec(s, n)) : s \in Shapes, n \in 1..MaxAct}
    \cup {MultiDiscrete(s, BumpedNvec(s, n)) :
             s \in {t \in Shapes : Prod(t) >= 2}, n \in 1..(MaxAct - 1)}

ActionSpaces == UNION {[ks -> Spaces] : ks \in SUBSET Keys}

\* ------------------------------------------------------ DictActor.__init__
ErrType == "ValueError: All action spaces must be MultiDiscrete"
ErrNdim == "ValueError: All action spaces must have 4 dimensions"
ErrNvec == "ValueError: Each action space must have the same number of actions throughout the space"
NoError == "none"

AllMultiDiscrete(sp) == \A k \in DOMAIN sp : sp[k].kind = "MultiDiscrete"

\* the 4-dimension check also demanding one common shape
AllNdim4Matching(sp) ==
    /\ \A k \in DOMAIN sp : Len(sp[k].shape) = 4
    /\ \A k1, k2 \in DOMAIN sp : sp[k1].shape = sp[k2].shape

AllNdim4(sp) == \A k \in DOMAIN sp : Len(sp[k].shape) = 4

AllUniform(sp) == \A k \in DOMAIN sp : MinSeq(sp[k].nvec) = MaxSeq(sp[k].nvec)

\* the nvec check moved before the dimension check
ValidationErrorNvecFirst(sp) ==
    IF ~AllMultiDiscrete(sp) THEN ErrType
    ELSE IF ~AllUniform(sp) THEN ErrNvec
    ELSE IF ~AllNdim4(sp) THEN ErrNdim
    ELSE NoError

ValidationError(sp) ==
    IF ~AllMultiDiscrete(sp) THEN ErrType
    ELSE IF ~AllNdim4(sp) THEN ErrNdim
    ELSE IF ~AllUniform(sp) THEN ErrNvec
    ELSE NoError

NActions(sp) == [k \in DOMAIN sp |-> MinSeq(sp[k].nvec)]

\* space.shape[2:] in place of space.shape[:-2]
ActionPlaneShapesTail(sp) ==
    [k \in DOMAIN sp |-> SubSeq(sp[k].shape, 3, Len(sp[k].shape))]

ActionPlaneShapes(sp) ==
    [k \in DOMAIN sp |-> SubSeq(sp[k].shape, 1, Len(sp[k].shape) - 2)]

\* out_channels of each key's nn.Conv2d(in_channels, out_channels, (1, 1))
Actors(sp) ==
    [k \in DOMAIN sp |-> NActions(sp)[k] * Prod(ActionPlaneShapes(sp)[k])]

\* ------------------------------------------------------- DictActor.forward
\* actor(x).view(b, n_actions, *action_plane_shape, h, w)
\*          .permute(0, 2, 3, 4, 5, 1).contiguous()
\* the channels read plane-major: view(b, *aps, n, h, w), logits moved last
LogitsPlaneMajor(conv, b, n, aps, h, w) ==
    PermuteContiguous(View(conv, <<b>> \o aps \o <<n, h, w>>),
                      <<0, 1, 2, 4, 5, 3>>)

Logits(conv, b, n, aps, h, w) ==
    PermuteContiguous(View(conv, <<b, n>> \o aps \o <<h, w>>),
                      <<0, 2, 3, 4, 5, 1>>)

\* argmin in place of argmax
Argmin(lg) ==
    LET rows == lg.shape[1]
        n    == lg.shape[2]
    IN [shape |-> <<rows>>,
        data  |-> [r \in 1..rows |->
                      CHOOSE a \in 0..(n - 1) :
                          /\ \A c \in 0..(n - 1) :
                                At(lg, <<r - 1, c>>) >= At(lg, <<r - 1, a>>)
                          /\ \A c \in 0..(a - 1) :
                                At(lg, <<r - 1, c>>) > At(lg, <<r - 1, a>>)]]

\* logits.argmax(dim=-1) of a (rows, n) tensor: first maximal index per row
Argmax(lg) ==
    LET rows == lg.shape[1]
        n    == lg.shape[2]
    IN [shape |-> <<rows>>,
        data  |-> [r \in 1..rows |->
                      CHOOSE a \in 0..(n - 1) :
                          /\ \A c \in 0..(n - 1) :
                                At(lg, <<r - 1, c>>) <= At(lg, <<r - 1, a>>)
                          /\ \A c \in 0..(a - 1) :
                                At(lg, <<r - 1, c>>) < At(lg, <<r - 1, a>>)]]

\* torch.multinomial(p, num_samples=1) of a (rows, n) tensor: every result
\* it can return, a (rows, 1) tensor of indices of positive probability
Multinomial(p) ==
    LET rows == p.shape[1]
        n    == p.shape[2]
    IN {[shape |-> <<rows, 1>>, data |-> d] :
           d \in {e \in [1..rows -> 0..(n - 1)] :
                     \A r \in 1..rows : At(p, <<r - 1, e[r]>>)[1] > 0}}

LogitsToActions(lg, smp) ==
    IF smp THEN Multinomial(Softmax(lg, -1)) ELSE {Argmax(lg)}

\* ---------------------------------------------------------- ValueActivation
\* the shift by one left out
ValueActivationNoShift(d, t) ==
    LET p == Softmax(t, d)
    IN [shape |-> p.shape,
        data  |-> [f \in 1..Len(p.data) |->
                      <<2 * p.data[f][1], p.data[f][2]>>]]

\* 2 * F.softmax(x, self.dim) - 1.
ValueActivation(d, t) ==
    LET p == Softmax(t, d)
    IN [shape |-> p.shape,
        data  |-> [f \in 1..Len(p.data) |->
                      <<2 * p.data[f][1] - p.data[f][2], p.data[f][2]>>]]

\* ------------------------------------------------------------------ state
Init ==
    /\ module = "none"
    /\ error = NoError
    /\ action_space = Empty
    /\ n_actions = Empty
    /\ action_plane_shapes = Empty
    /\ actors = Empty
    /\ dim = DefaultValueDim
    /\ sample = FALSE
    /\ conv_out = Empty
    /\ policy_logits = Empty
    /\ probs = Empty
    /\ actions = Empty
    /\ baseline = Empty
    /\ va_x = Empty
    /\ va_out = Empty
    /\ returned = FALSE
    /\ x_shape = Empty

\* BasicActorCriticNetwork.__init__, DictActor.__init__ included
Construct ==
    /\ module = "none"
    /\ \E sp \in ActionSpaces :
        /\ action_space' = sp
        /\ error' = ValidationError(sp)
        /\ IF ValidationError(sp) = NoError
           THEN /\ module' = "BasicActorCriticNetwork"
                /\ n_actions' = NActions(sp)
                /\ action_plane_shapes' = ActionPlaneShapes(sp)
                /\ actors' = Actors(sp)
           ELSE /\ module' = "error"
                /\ UNCHANGED <<n_actions, action_plane_shapes, actors>>
    /\ UNCHANGED <<dim, sample, conv_out, policy_logits, probs, actions,
                   baseline, va_x, va_out, returned, x_shape>>

DataSet(n) == [1..n -> LogitVals]

\* a baseline head ending in a single output feature
BaselineShapeScalar(b) == <<b, 1>>

\* shape after AdaptiveAvgPool2d(1), Flatten and Linear(base_out_channels, 2)
BaselineShape(b) == <<b, 2>>

ConvSize(k, b, h, w) == IF k \in DOMAIN actors THEN b * actors[k] * h * w ELSE 0

\* BasicActorCriticNetwork.forward, DictActor.forward included
Forward(smp) ==
    /\ module = "BasicActorCriticNetwork"
    /\ ~returned
    /\ \E b \in 1..MaxDim, h \in 1..MaxDim, w \in 1..MaxDim :
        /\ ConvSize("worker", b, h, w) + ConvSize("city_tile", b, h, w) <= MaxLogits
        /\ \E cw \in DataSet(ConvSize("worker", b, h, w)),
              cc \in DataSet(ConvSize("city_tile", b, h, w)),
              lin \in DataSet(Prod(BaselineShape(b))) :
            \E conv \in {[k \in DOMAIN actors |->
                            [shape |-> <<b, actors[k], h, w>>,
                             data  |-> IF k = "worker" THEN cw ELSE cc]]} :
            \E lg \in {[k \in DOMAIN actors |->
                            Logits(conv[k], b, n_actions[k],
                                   action_plane_shapes[k], h, w)]} :
            \E aw \in IF "worker" \in DOMAIN actors
                       THEN LogitsToActions(ViewRows(lg["worker"],
                                                     n_actions["worker"]), smp)
                       ELSE {Empty},
               ac \in IF "city_tile" \in DOMAIN actors
                       THEN LogitsToActions(ViewRows(lg["city_tile"],
                                                     n_actions["city_tile"]), smp)
                       ELSE {Empty} :
                /\ x_shape' = <<b, h, w>>
                /\ conv_out' = conv
                /\ policy_logits' = lg
                /\ probs' = IF smp
                            THEN [k \in DOMAIN actors |->
                                     Softmax(ViewRows(lg[k], n_actions[k]), -1)]
                            ELSE Empty
                /\ actions' = [k \in DOMAIN actors |->
                                  View(IF k = "worker" THEN aw ELSE ac,
                                       <<b>> \o action_plane_shapes[k] \o <<h, w>>)]
                /\ baseline' = ValueActivation(dim,
                                  [shape |-> BaselineShape(b),
                                   data  |-> lin])
    /\ sample' = smp
    /\ returned' = TRUE
    /\ UNCHANGED <<module, error, action_space, n_actions,
                   action_plane_shapes, actors, dim, va_x, va_out>>

SampleActions == Forward(TRUE)

SelectBestActions == Forward(FALSE)

\* ValueActivation.__init__
ConstructValueActivation ==
    /\ module = "none"
    /\ module' = "ValueActivation"
    /\ dim' \in {-2, -1, 0, 1}
    /\ UNCHANGED <<error, action_space, n_actions, action_plane_shapes,
                   actors, sample, conv_out, policy_logits, probs, actions,
                   baseline, va_x, va_out, returned, x_shape>>

\* ValueActivation.forward on a 2-d tensor
ValueActivationForward ==
    /\ module = "ValueActivation"
    /\ ~returned
    /\ \E r \in 1..MaxDim, c \in 1..MaxVaCols :
        \E d \in DataSet(r * c) :
            /\ va_x' = [shape |-> <<r, c>>, data |-> d]
            /\ va_out' = ValueActivation(dim, [shape |-> <<r, c>>, data |-> d])
    /\ returned' = TRUE
    /\ UNCHANGED <<module, error, action_space, n_actions,
                   action_plane_shapes, actors, dim, sample, conv_out,
                   policy_logits, probs, actions, baseline, x_shape>>

\* the caller drops the outputs of a call; the module is ready for the next
Discard ==
    /\ returned
    /\ returned' = FALSE
    /\ sample' = FALSE
    /\ conv_out' = Empty
    /\ policy_logits' = Empty
    /\ probs' = Empty
    /\ actions' = Empty
    /\ baseline' = Empty
    /\ va_x' = Empty
    /\ va_out' = Empty
    /\ x_shape' = Empty
    /\ UNCHANGED <<module, error, action_space, n_actions,
                   action_plane_shapes, actors, dim>>

Next ==
    \/ Construct
    \/ SampleActions
    \/ SelectBestActions
    \/ ConstructValueActivation
    \/ ValueActivationForward
    \/ Discard

Spec == Init /\ [][Next]_vars

\* ================================================================ claims
Constructed == module \in {"BasicActorCriticNetwork", "error"}
Built == module = "BasicActorCriticNetwork"
Called == Built /\ returned

HasNonMultiDiscrete ==
    \E k \in DOMAIN action_space : action_space[k].kind # "MultiDiscrete"
HasNon4d ==
    \E k \in DOMAIN action_space : Len(action_space[k].shape) # 4
HasNonUniform ==
    \E k \in DOMAIN action_space :
        \E i, j \in DOMAIN action_space[k].nvec :
            action_space[k].nvec[i] # action_space[k].nvec[j]

\* p0, p1 and n_actions of a key, read off the action space itself
P0(k) == action_space[k].shape[1]
P1(k) == action_space[k].shape[2]
NAct(k) == action_space[k].nvec[1]
B == x_shape[1]
H == x_shape[2]
W == x_shape[3]

\* C1: construction raises ValueError when an entry is not MultiDiscrete,
\* else when an entry's shape has not 4 dimensions, else when an entry's
\* nvec is not uniform, the first failing check being the one reported and
\* no actor being built; otherwise construction succeeds.
C1_ValidationOrder ==
    Constructed =>
        /\ HasNonMultiDiscrete =>
              module = "error" /\ error = ErrType /\ actors = Empty
        /\ (~HasNonMultiDiscrete /\ HasNon4d) =>
              module = "error" /\ error = ErrNdim /\ actors = Empty
        /\ (~HasNonMultiDiscrete /\ ~HasNon4d /\ HasNonUniform) =>
              module = "error" /\ error = ErrNvec /\ actors = Empty
        /\ (~HasNonMultiDiscrete /\ ~HasNon4d /\ ~HasNonUniform) =>
              Built /\ error = NoError /\ DOMAIN actors = DOMAIN action_space

\* an action space with all three violations, reported as the first
C1_Witness ==
    /\ module = "error"
    /\ error = ErrType
    /\ \E k \in DOMAIN action_space :
          /\ action_space[k].kind = "MultiDiscrete"
          /\ Len(action_space[k].shape) # 4
          /\ action_space[k].nvec[1] # action_space[k].nvec[Len(action_space[k].nvec)]

\* a 3- or 5-dimensional entry with non-uniform nvec reports the dimensions
C1_WitnessNdimBeforeNvec ==
    module = "error" /\ error = ErrNdim /\ HasNonUniform

\* C2 (as stated): two entries whose shapes differ make construction fail.
C2_MismatchedShapesRejected ==
    (Constructed /\ \E k1, k2 \in DOMAIN action_space :
                        action_space[k1].shape # action_space[k2].shape)
        => module = "error"

\* C2 (amended): among MultiDiscrete entries with uniform nvec, construction
\* fails exactly when some entry's shape has not 4 dimensions; entries whose
\* 4-dimensional shapes differ are accepted, each key with its own action
\* plane shape and its own head of n_actions * p0 * p1 channels.
C2_RankOnly ==
    (Constructed /\ ~HasNonMultiDiscrete /\ ~HasNonUniform) =>
        /\ module = "error" <=> HasNon4d
        /\ Built => \A k \in DOMAIN action_space :
              /\ action_plane_shapes[k] = <<P0(k), P1(k)>>
              /\ actors[k] = NAct(k) * P0(k) * P1(k)

C2_Witness ==
    /\ Built
    /\ \E k1, k2 \in DOMAIN action_space :
          /\ action_space[k1].shape # action_space[k2].shape
          /\ action_plane_shapes[k1] # action_plane_shapes[k2]

\* C3 (as stated): the baseline holds exactly one value per batch element.
C3_BaselineScalar ==
    Called => Len(baseline.data) = B

\* C3 (amended): the baseline holds exactly two values per batch element,
\* its shape being (b, 2).
C3_BaselineTwoPerState ==
    Called => baseline.shape = <<B, 2>> /\ Len(baseline.data) = 2 * B

C3_Witness ==
    Called /\ B = 2 /\ Len(baseline.data) = 4

RowsOf(k) == B * P0(k) * P1(k) * H * W

\* C4 (as stated): at every batch element, plane and location the n_actions
\* values of policy_logits are non-negative and sum to 1.
C4_LogitsAreDistribution ==
    Called => \A k \in DOMAIN policy_logits :
        \A r \in 0..(RowsOf(k) - 1) :
            /\ \A a \in 0..(NAct(k) - 1) :
                  policy_logits[k].data[r * NAct(k) + a + 1] >= 0
            /\ SumSeq([a \in 1..NAct(k) |->
                         policy_logits[k].data[r * NAct(k) + a]]) = 1

\* C4 (amended): policy_logits are unnormalised; the distribution over a
\* key's choices is their softmax along the last axis, from which sampling
\* draws: at every batch element, plane and location its n_actions values
\* are non-negative and sum to 1.
C4_SoftmaxIsDistribution ==
    (Called /\ sample) =>
        /\ DOMAIN probs = DOMAIN action_space
        /\ \A k \in DOMAIN probs :
            /\ probs[k].shape = <<RowsOf(k), NAct(k)>>
            /\ \A r \in 0..(RowsOf(k) - 1) :
                LET P(a) == probs[k].data[r * NAct(k) + a + 1]
                IN /\ \A a \in 0..(NAct(k) - 1) :
                        /\ P(a)[1] >= 0
                        /\ P(a)[2] > 0
                        /\ P(a)[2] = P(0)[2]
                        /\ P(a)[1] =
                             Exp(policy_logits[k].data[r * NAct(k) + a + 1])
                   /\ SumSeq([a \in 1..NAct(k) |-> P(a - 1)[1]]) = P(0)[2]

C4_Witness ==
    /\ Called /\ sample
    /\ \E k \in DOMAIN probs :
          /\ NAct(k) = 2
          /\ RowsOf(k) = 2
          /\ \E f \in DOMAIN policy_logits[k].data :
                policy_logits[k].data[f] < 0

\* C5: for both values of sample, forward returns for exactly the keys of
\* the action space policy_logits of shape (b, p0, p1, h, w, n_actions) and
\* actions of shape (b, p0, p1, h, w), every action in 0..n_actions-1.
C5_OutputShapes ==
    Called =>
        /\ DOMAIN policy_logits = DOMAIN action_space
        /\ DOMAIN actions = DOMAIN action_space
        /\ \A k \in DOMAIN action_space :
            /\ policy_logits[k].shape = <<B, P0(k), P1(k), H, W, NAct(k)>>
            /\ Len(policy_logits[k].data) = RowsOf(k) * NAct(k)
            /\ actions[k].shape = <<B, P0(k), P1(k), H, W>>
            /\ Len(actions[k].data) = RowsOf(k)
            /\ \A f \in 1..Len(actions[k].data) :
                  actions[k].data[f] \in 0..(NAct(k) - 1)

C5_Witness ==
    /\ Called /\ sample
    /\ \E k1, k2 \in DOMAIN action_space :
          /\ P0(k1) # P0(k2)
          /\ action_space[k1].shape[3] # H
    /\ \E k \in DOMAIN actions : \E f \in DOMAIN actions[k].data :
          actions[k].data[f] = 1

C5_WitnessBest ==
    Called /\ ~sample /\ DOMAIN actions = Keys

\* flat offsets written out, row-major
LogitAt(k, b, i, j, y, x, a) ==
    policy_logits[k].data[
        ((((b * P0(k) + i) * P1(k) + j) * H + y) * W + x) * NAct(k) + a + 1]
ActionAt(k, b, i, j, y, x) ==
    actions[k].data[(((b * P0(k) + i) * P1(k) + j) * H + y) * W + x + 1]
ConvAt(k, b, c, y, x) ==
    conv_out[k].data[((b * actors[k] + c) * H + y) * W + x + 1]

\* C6: with sample = FALSE, actions[key][b, i, j, y, x] is an index whose
\* logit is maximal among policy_logits[key][b, i, j, y, x, :].
C6_BestActionColocated ==
    (Called /\ ~sample) => \A k \in DOMAIN action_space :
        \A b \in 0..(B - 1), i \in 0..(P0(k) - 1), j \in 0..(P1(k) - 1),
           y \in 0..(H - 1), x \in 0..(W - 1) :
            /\ ActionAt(k, b, i, j, y, x) \in 0..(NAct(k) - 1)
            /\ \A a \in 0..(NAct(k) - 1) :
                  LogitAt(k, b, i, j, y, x, a)
                      <= LogitAt(k, b, i, j, y, x, ActionAt(k, b, i, j, y, x))

\* two positions of one key whose best actions differ
C6_Witness ==
    /\ Called /\ ~sample
    /\ \E k \in DOMAIN action_space :
          /\ NAct(k) = 2
          /\ \E f, g \in DOMAIN actions[k].data :
                /\ actions[k].data[f] = 0
                /\ actions[k].data[g] = 1
                /\ policy_logits[k].data[2 * g - 1] < policy_logits[k].data[2 * g]

\* C7: the head of a key has n_actions * p0 * p1 channels and
\* policy_logits[key][b, i, j, y, x, a] is the convolution output at channel
\* a * (p0 * p1) + i * p1 + j, batch b, location (y, x); the channels are in
\* bijection with the triples (a, i, j).
C7_ChannelMapping ==
    Called => \A k \in DOMAIN action_space :
        /\ actors[k] = NAct(k) * P0(k) * P1(k)
        /\ conv_out[k].shape = <<B, actors[k], H, W>>
        /\ \A b \in 0..(B - 1), i \in 0..(P0(k) - 1), j \in 0..(P1(k) - 1),
              y \in 0..(H - 1), x \in 0..(W - 1), a \in 0..(NAct(k) - 1) :
                LogitAt(k, b, i, j, y, x, a)
                    = ConvAt(k, b, a * (P0(k) * P1(k)) + i * P1(k) + j, y, x)
        /\ \A c \in 0..(actors[k] - 1) :
              Cardinality({t \in (0..(NAct(k) - 1)) \X (0..(P0(k) - 1))
                                    \X (0..(P1(k) - 1)) :
                              t[1] * (P0(k) * P1(k)) + t[2] * P1(k) + t[3] = c})
                  = 1

\* a head of 4 channels (2 actions, 2 planes) whose outputs are not all equal
C7_Witness ==
    /\ Called
    /\ \E k \in DOMAIN action_space :
          /\ NAct(k) = 2
          /\ P0(k) * P1(k) = 2
          /\ conv_out[k].data[2] # conv_out[k].data[3]

\* along the softmax dimension the fractions share their denominator
VaNum(t, cols, i, j) == t.data[i * cols + j + 1][1]
VaDen(t, cols, i, j) == t.data[i * cols + j + 1][2]

\* C8: every value of 2 * softmax(x) - 1 lies in [-1, 1] and the values
\* along the softmax dimension of size n sum to 2 - n; the two baseline
\* values of a batch element sum to 0.
C8_ValueActivationRange ==
    /\ (module = "ValueActivation" /\ returned) =>
        LET r == va_x.shape[1]
            c == va_x.shape[2]
        IN /\ va_out.shape = <<r, c>>
           /\ \A i \in 0..(r - 1), j \in 0..(c - 1) :
                /\ VaDen(va_out, c, i, j) > 0
                /\ -VaDen(va_out, c, i, j) <= VaNum(va_out, c, i, j)
                /\ VaNum(va_out, c, i, j) <= VaDen(va_out, c, i, j)
           /\ dim \in {-1, 1} => \A i \in 0..(r - 1) :
                /\ \A j \in 0..(c - 1) :
                      VaDen(va_out, c, i, j) = VaDen(va_out, c, i, 0)
                /\ SumSeq([j \in 1..c |-> VaNum(va_out, c, i, j - 1)])
                      = (2 - c) * VaDen(va_out, c, i, 0)
           /\ dim \in {-2, 0} => \A j \in 0..(c - 1) :
                /\ \A i \in 0..(r - 1) :
                      VaDen(va_out, c, i, j) = VaDen(va_out, c, 0, j)
                /\ SumSeq([i \in 1..r |-> VaNum(va_out, c, i - 1, j)])
                      = (2 - r) * VaDen(va_out, c, 0, j)
    /\ Called =>
        \A i \in 0..(B - 1) :
            /\ \A j \in 0..1 :
                /\ VaDen(baseline, 2, i, j) > 0
                /\ -VaDen(baseline, 2, i, j) <= VaNum(baseline, 2, i, j)
                /\ VaNum(baseline, 2, i, j) <= VaDen(baseline, 2, i, j)
            /\ VaDen(baseline, 2, i, 0) = VaDen(baseline, 2, i, 1)
            /\ VaNum(baseline, 2, i, 0) + VaNum(baseline, 2, i, 1) = 0

\* a softmax dimension of size 3, whose values sum to -1
C8_Witness ==
    /\ module = "ValueActivation" /\ returned
    /\ dim = -1
    /\ va_x.shape = <<2, 3>>
    /\ va_x.data[1] # va_x.data[2]

C8_WitnessBaseline ==
    Called /\ B = 2 /\ baseline.data[1][1] # 0 /\ baseline.data[3][1] = 0

====
